---- MODULE Spec2Model ----
(***************************************************************************)
(* Model of tide-compress: the CompressMiddleware of src/middleware.rs.    *)
(*                                                                         *)
(* State: the build's enabled codec features, the middleware instance      *)
(* (threshold, levels), and one handle call: the values captured from the  *)
(* request, the response downstream produced, the response being           *)
(* transformed and the value handle returns.                               *)
(*                                                                         *)
(* handle has one suspension point, next.run(req).await.  handle_request   *)
(* is the code up to it, handle_response the code after it.                *)
(*                                                                         *)
(* The typed headers of http-types (AcceptEncoding, CacheControl,          *)
(* ContentEncoding, Vary) are modelled by what they do at the call sites   *)
(* of handle.                                                              *)
(***************************************************************************)
EXTENDS Integers, Sequences, FiniteSets

(***************************************************************************)
(* Program constants and bounds                                            *)
(***************************************************************************)

\* const THRESHOLD: usize = 1024;
THRESHOLD == 1024

\* with_threshold(t) is called with t in 0..MaxThreshold
MaxThreshold == 1

\* a known body length is in 0..MaxBodyLen, or THRESHOLD - 1, or THRESHOLD
MaxBodyLen == 1

\* a parsed Accept-Encoding list handed to the selector has at most MaxEntries
\* proposals
MaxEntries == 2

\* the number of handle calls in flight on one shared middleware
NCalls == 2

\* Option<T>: None is the empty sequence, Some(x) the sequence <<x>>
None == <<>>
Some(x) == <<x>>
IsSome(o) == Len(o) > 0
Unwrap(o) == o[1]

\* the optional codecs of the build: #[cfg(feature = "...")]
Codecs == {"brotli", "gzip", "deflate"}

\* tide::http::content::Encoding
Encoding == {"Brotli", "Gzip", "Deflate", "Zstd", "Identity"}

\* the cargo feature that gates an Encoding variant in this crate
FeatureOf(e) ==
    CASE e = "Brotli" -> "brotli"
      [] e = "Gzip" -> "gzip"
      [] e = "Deflate" -> "deflate"
      [] OTHER -> "none"

\* async_compression::Level
Level == {"Fastest", "Best", "Default", "Precise4"}

(***************************************************************************)
(* CompressionLevels: one field per enabled codec                          *)
(***************************************************************************)

\* impl Default for CompressionLevels
CompressionLevels_default(feat) == [c \in feat |-> "Default"]

\* all that leaves deflate at its default level
all_but_deflate(feat, level) ==
    [c \in feat |-> IF c = "deflate" THEN "Default" ELSE level]

\* CompressionLevels::all(level)
all(feat, level) == [c \in feat |-> level]

\* the struct literal of the documentation examples
DocLevels(feat) ==
    [c \in feat |-> CASE c = "brotli" -> "Precise4"
                      [] c = "gzip" -> "Fastest"
                      [] OTHER -> "Default"]

\* the level configurations the constructors are called with
LevelInputs(feat) == {CompressionLevels_default(feat), DocLevels(feat)}

(***************************************************************************)
(* CompressMiddleware constructors                                         *)
(***************************************************************************)

\* impl Default for CompressMiddleware
CompressMiddleware_default(feat) ==
    [threshold |-> THRESHOLD, levels |-> CompressionLevels_default(feat)]

\* CompressMiddleware::new()
CompressMiddleware_new(feat) == CompressMiddleware_default(feat)

\* CompressMiddleware::with_threshold(threshold)
CompressMiddleware_with_threshold(feat, threshold) ==
    [CompressMiddleware_default(feat) EXCEPT !.threshold = threshold]

\* with_levels that drops its argument
CompressMiddleware_with_levels_dropped(feat, levels) ==
    CompressMiddleware_default(feat)

\* CompressMiddleware::with_levels(levels)
CompressMiddleware_with_levels(feat, levels) ==
    [CompressMiddleware_default(feat) EXCEPT !.levels = levels]

\* CompressMiddleware::with_threshold_and_levels(threshold, levels)
CompressMiddleware_with_threshold_and_levels(threshold, levels) ==
    [threshold |-> threshold, levels |-> levels]

(***************************************************************************)
(* Headers                                                                 *)
(***************************************************************************)

\* q-values, in tenths
Weights == {None, Some(8), Some(10)}

\* EncodingProposal: an encoding and an optional weight
Proposals == [encoding : Encoding \ {"Zstd"}, weight : Weights]

\* One comma-separated part of an Accept-Encoding header value: "*", or a
\* coding name with an optional ";q=" parameter.  "compress" is a coding
\* http-types does not know, "q=x" a weight that does not parse.
HeaderParts ==
    {<<"*", "">>, <<"compress", "">>} \cup
    {<<n, w>> : n \in {"br", "gzip", "deflate", "identity"},
                w \in {"", "q=0.8", "q=1.0", "q=x"}}

\* Encoding::from_str
Encoding_from_str(s) ==
    CASE s = "br" -> Some("Brotli")
      [] s = "gzip" -> Some("Gzip")
      [] s = "deflate" -> Some("Deflate")
      [] s = "zstd" -> Some("Zstd")
      [] s = "identity" -> Some("Identity")
      [] OTHER -> None

\* the weight parameter of a proposal; "q=x" is not a number
parse_weight(w) ==
    CASE w = "" -> [ok |-> TRUE, value |-> None]
      [] w = "q=0.8" -> [ok |-> TRUE, value |-> Some(8)]
      [] w = "q=1.0" -> [ok |-> TRUE, value |-> Some(10)]
      [] OTHER -> [ok |-> FALSE, value |-> None]

\* EncodingProposal::from_str(part) is Some: the part names a known coding
\* ("*" is handled before it, an unknown coding is skipped)
IsProposalPart(part) == part[1] # "*" /\ IsSome(Encoding_from_str(part[1]))

\* AcceptEncoding::from_headers(&req): Ok(None) when the header is absent,
\* Err when a weight does not parse, otherwise the proposals with a known
\* coding, in header order, and the wildcard flag.
RECURSIVE ParseEntries(_)
ParseEntries(parts) ==
    IF parts = <<>> THEN <<>>
    ELSE LET part == Head(parts)
             rest == ParseEntries(Tail(parts))
         IN IF ~IsProposalPart(part) THEN rest
            ELSE <<[encoding |-> Unwrap(Encoding_from_str(part[1])),
                    weight |-> parse_weight(part[2]).value]>> \o rest

AcceptEncoding_from_headers(header) ==
    IF header = None THEN [ok |-> TRUE, value |-> None]
    ELSE LET parts == Unwrap(header)
         IN IF \E i \in 1..Len(parts) :
                   IsProposalPart(parts[i]) /\ ~parse_weight(parts[i][2]).ok
            THEN [ok |-> FALSE, value |-> None]
            ELSE [ok |-> TRUE,
                  value |-> Some([entries |-> ParseEntries(parts),
                                  wildcard |-> \E i \in 1..Len(parts) :
                                                   parts[i][1] = "*"])]

\* PartialOrd for EncodingProposal: compares the weights; a proposal with a
\* weight is greater than one without, two without are incomparable.
partial_cmp(left, right) ==
    CASE IsSome(left.weight) /\ IsSome(right.weight) ->
             IF Unwrap(left.weight) < Unwrap(right.weight) THEN "Less"
             ELSE IF Unwrap(left.weight) > Unwrap(right.weight) THEN "Greater"
             ELSE "Equal"
      [] IsSome(left.weight) /\ ~IsSome(right.weight) -> "Greater"
      [] ~IsSome(left.weight) /\ IsSome(right.weight) -> "Less"
      [] OTHER -> "None"

\* The comparator of sort_by_weight on (index, proposal) pairs: a goes before
\* b when b's proposal is less than a's, or, when they are equal or
\* incomparable, when b was declared earlier.
GoesBefore(a, b) ==
    LET ord == partial_cmp(b[2], a[2])
    IN IF ord \in {"None", "Equal"} THEN b[1] < a[1] ELSE ord = "Less"

\* insertion of x into a sequence sorted by GoesBefore
RECURSIVE InsertSorted(_, _)
InsertSorted(x, sorted) ==
    IF sorted = <<>> THEN <<x>>
    ELSE IF GoesBefore(x, Head(sorted)) THEN <<x>> \o sorted
    ELSE <<Head(sorted)>> \o InsertSorted(x, Tail(sorted))

RECURSIVE SortPairs(_)
SortPairs(pairs) ==
    IF pairs = <<>> THEN <<>>
    ELSE InsertSorted(Head(pairs), SortPairs(Tail(pairs)))

\* AcceptEncoding::sort: higher weight first, later declaration first among
\* equal weights
sort(entries) ==
    LET pairs == [i \in 1..Len(entries) |-> <<i, entries[i]>>]
        sorted == SortPairs(pairs)
    IN [i \in 1..Len(entries) |-> sorted[i][2]]

\* available without the feature gates: every codec is offered
available_ungated(feat) == <<"Brotli", "Gzip", "Deflate">>

\* the slice handed to negotiate: the Encoding variants of the enabled
\* features, in the order Brotli, Gzip, Deflate
available(feat) ==
    SelectSeq(<<"Brotli", "Gzip", "Deflate">>, LAMBDA e : FeatureOf(e) \in feat)

Contains(seq, x) == \E i \in 1..Len(seq) : seq[i] = x

\* the encoding of the first proposal of seq that avail contains, if any
RECURSIVE FirstMatch(_, _)
FirstMatch(seq, avail) ==
    IF seq = <<>> THEN None
    ELSE IF Contains(avail, Head(seq).encoding) THEN Some(Head(seq).encoding)
    ELSE FirstMatch(Tail(seq), avail)

\* AcceptEncoding::negotiate(&[..]): sorts the proposals, returns the first
\* one that is available; failing that, with a wildcard, the first available
\* encoding; failing that, Err (406 Not Acceptable).
negotiate(accept, avail) ==
    LET found == FirstMatch(sort(accept.entries), avail)
    IN IF IsSome(found) THEN [ok |-> TRUE, value |-> Unwrap(found)]
       ELSE IF accept.wildcard /\ avail # <<>>
            THEN [ok |-> TRUE, value |-> Head(avail)]
       ELSE [ok |-> FALSE, value |-> "NotAcceptable"]

\* The Cache-Control header values a downstream response carries: absent, a
\* directive other than no-transform, no-transform, and a directive whose
\* argument does not parse.
CacheControlHeaders ==
    {None, Some(<<"public">>), Some(<<"public", "no-transform">>),
     Some(<<"max-age=x">>)}

\* CacheControl::from_headers(&res): Ok(None) when absent, Err when a
\* directive does not parse, otherwise the directives
CacheControl_from_headers(header) ==
    IF header = None THEN [ok |-> TRUE, value |-> None]
    ELSE IF Contains(Unwrap(header), "max-age=x")
         THEN [ok |-> FALSE, value |-> None]
    ELSE [ok |-> TRUE, value |-> header]

\* The Content-Encoding header values a downstream response carries: absent,
\* one value, or two values; "compress" is a coding http-types does not know.
ContentEncodingHeaders ==
    {<<>>, <<"identity">>, <<"gzip">>, <<"compress">>, <<"deflate", "gzip">>}

\* the last value of the header that names a known coding, if any
RECURSIVE LastKnown(_)
LastKnown(values) ==
    IF values = <<>> THEN None
    ELSE LET last == Encoding_from_str(values[Len(values)])
         IN IF IsSome(last) THEN last
            ELSE LastKnown(SubSeq(values, 1, Len(values) - 1))

\* ContentEncoding::from_headers(&res): Ok(None) when the header is absent,
\* otherwise the last value that names a known coding; it panics when no value
\* does.
ContentEncoding_from_headers(values) ==
    IF values = <<>> THEN [ok |-> TRUE, value |-> None]
    ELSE IF IsSome(LastKnown(values)) THEN [ok |-> TRUE, value |-> LastKnown(values)]
    ELSE [ok |-> FALSE, value |-> None]

\* Vary::new(), push(ACCEPT_ENCODING), apply(&mut res): apply inserts the
\* header, which replaces the values the response had
Vary_apply(res) == [res EXCEPT !.vary = {"accept-encoding"}]

\* ContentEncoding::apply(&mut res): inserts the header, which replaces the
\* values the response had
ContentEncoding_apply(encoding, res) ==
    [res EXCEPT !.content_encoding =
        <<CASE encoding = "Brotli" -> "br"
            [] encoding = "Gzip" -> "gzip"
            [] encoding = "Deflate" -> "deflate"
            [] encoding = "Zstd" -> "zstd"
            [] OTHER -> "identity">>]

(***************************************************************************)
(* Bodies and responses                                                    *)
(***************************************************************************)

\* the body lengths a downstream response declares: unknown, or known
BodyLens ==
    {None} \cup {Some(n) : n \in (0..MaxBodyLen) \cup {THRESHOLD - 1, THRESHOLD}}

\* a body produced by downstream
SourceBody(len) == [kind |-> "source", len |-> len]

\* what take_body leaves in the response: Body::empty()
EmptyBody == [kind |-> "empty", len |-> Some(0)]

\* Body::from_reader(BufReader::new(XEncoder::with_quality(body, level)), None)
EncoderBody(encoder, level, body) ==
    [kind |-> "encoder", encoder |-> encoder, level |-> level, inner |-> body,
     len |-> None]

\* the responses downstream produces
Responses ==
    {[cache_control |-> cc, content_encoding |-> ce, content_length |-> cl,
      vary |-> v, body |-> SourceBody(len)] :
        cc \in CacheControlHeaders,
        ce \in ContentEncodingHeaders,
        cl \in {None, Some("set")},
        v \in {{}, {"origin"}},
        len \in BodyLens}

\* Response::len(): the length of the body, if known
len(res) == res.body.len

\* Response::take_body(): the body is replaced by an empty one
take_body(res) == [res EXCEPT !.body = EmptyBody]

\* Response::set_body(body)
set_body(res, body) == [res EXCEPT !.body = body]

\* Response::remove_header(CONTENT_LENGTH)
remove_content_length(res) == [res EXCEPT !.content_length = None]

\* get_encoder that gives the gzip encoder the level of another codec
get_encoder_other_level(feat, body, encoding, levels) ==
    IF "brotli" \in feat /\ encoding = "Brotli"
    THEN EncoderBody("BrotliEncoder", levels["brotli"], body)
    ELSE IF "gzip" \in feat /\ encoding = "Gzip"
    THEN EncoderBody("GzipEncoder",
                     IF "deflate" \in feat THEN levels["deflate"]
                     ELSE IF "brotli" \in feat THEN levels["brotli"]
                     ELSE levels["gzip"],
                     body)
    ELSE IF "deflate" \in feat /\ encoding = "Deflate"
    THEN EncoderBody("DeflateEncoder", levels["deflate"], body)
    ELSE body

\* get_encoder(body, encoding, levels): the encoder of the encoding when its
\* feature is enabled, the body itself otherwise
get_encoder(feat, body, encoding, levels) ==
    IF "brotli" \in feat /\ encoding = "Brotli"
    THEN EncoderBody("BrotliEncoder", levels["brotli"], body)
    ELSE IF "gzip" \in feat /\ encoding = "Gzip"
    THEN EncoderBody("GzipEncoder", levels["gzip"], body)
    ELSE IF "deflate" \in feat /\ encoding = "Deflate"
    THEN EncoderBody("DeflateEncoder", levels["deflate"], body)
    ELSE body

(***************************************************************************)
(* Requests                                                                *)
(***************************************************************************)

\* sequences over S of length at most n
SeqUpTo(S, n) == UNION {[1..k -> S] : k \in 0..n}

\* The Accept-Encoding header of a request: absent, empty, one part, or the
\* two-part "br;q=0.8, gzip;q=1.0".
AcceptEncodingHeaders ==
    {None, Some(<<>>), Some(<<<<"br", "q=0.8">>, <<"gzip", "q=1.0">>>>)}
    \cup {Some(<<p>>) : p \in HeaderParts}

Requests == [method : {"Get", "Head"}, accept_encoding : AcceptEncodingHeaders]

(***************************************************************************)
(* handle                                                                  *)
(***************************************************************************)

Ok(r) == [kind |-> "Ok", res |-> r]
Err(e) == [kind |-> "Err", error |-> e]
Panic == [kind |-> "Panic"]

\* compress that wraps what take_body left in the response
compress_wraps_empty(m, feat, acc, res) ==
    LET res1 == take_body(res)
        encoding == negotiate(acc, available(feat))
    IN IF ~encoding.ok THEN Err(encoding.value)
       ELSE LET res2 == set_body(res1, get_encoder(feat, res1.body, encoding.value,
                                                   m.levels))
                res3 == ContentEncoding_apply(encoding.value, res2)
            IN Ok(remove_content_length(res3))

\* compress that keeps the Content-Length header
compress_keeps_length(m, feat, acc, res) ==
    LET body == res.body
        res1 == take_body(res)
        encoding == negotiate(acc, available(feat))
    IN IF ~encoding.ok THEN Err(encoding.value)
       ELSE LET res2 == set_body(res1, get_encoder(feat, body, encoding.value, m.levels))
            IN Ok(ContentEncoding_apply(encoding.value, res2))

\* handle, lines 253-270: the body is taken, the encoding negotiated, the
\* encoder installed, Content-Encoding set and Content-Length removed
compress(m, feat, acc, res) ==
    LET body == res.body
        res1 == take_body(res)
        encoding == negotiate(acc, available(feat))
    IN IF ~encoding.ok THEN Err(encoding.value)
       ELSE LET res2 == set_body(res1, get_encoder(feat, body, encoding.value, m.levels))
                res3 == ContentEncoding_apply(encoding.value, res2)
            IN Ok(remove_content_length(res3))

\* after_no_transform that sets Vary only when it goes on to compress
after_no_transform_vary_late(m, feat, acc, res) ==
    LET previous_encoding == ContentEncoding_from_headers(res.content_encoding)
    IN IF ~previous_encoding.ok THEN Panic
       ELSE IF IsSome(previous_encoding.value)
               /\ Unwrap(previous_encoding.value) # "Identity"
       THEN Ok(res)
       ELSE IF IsSome(len(res)) /\ Unwrap(len(res)) < m.threshold
       THEN Ok(res)
       ELSE compress(m, feat, acc, Vary_apply(res))

\* after_no_transform that also returns a body of unknown length
after_no_transform_unknown_skips(m, feat, acc, res) ==
    LET res1 == Vary_apply(res)
        previous_encoding == ContentEncoding_from_headers(res1.content_encoding)
    IN IF ~previous_encoding.ok THEN Panic
       ELSE IF IsSome(previous_encoding.value)
               /\ Unwrap(previous_encoding.value) # "Identity"
       THEN Ok(res1)
       ELSE IF ~IsSome(len(res1)) \/ Unwrap(len(res1)) < m.threshold
       THEN Ok(res1)
       ELSE compress(m, feat, acc, res1)

\* after_no_transform that also returns a body of exactly the threshold's length
after_no_transform_le(m, feat, acc, res) ==
    LET res1 == Vary_apply(res)
        previous_encoding == ContentEncoding_from_headers(res1.content_encoding)
    IN IF ~previous_encoding.ok THEN Panic
       ELSE IF IsSome(previous_encoding.value)
               /\ Unwrap(previous_encoding.value) # "Identity"
       THEN Ok(res1)
       ELSE IF IsSome(len(res1)) /\ Unwrap(len(res1)) <= m.threshold
       THEN Ok(res1)
       ELSE compress(m, feat, acc, res1)

\* after_no_transform without setting Vary
after_no_transform_no_vary(m, feat, acc, res) ==
    LET previous_encoding == ContentEncoding_from_headers(res.content_encoding)
    IN IF ~previous_encoding.ok THEN Panic
       ELSE IF IsSome(previous_encoding.value)
               /\ Unwrap(previous_encoding.value) # "Identity"
       THEN Ok(res)
       ELSE IF IsSome(len(res)) /\ Unwrap(len(res)) < m.threshold
       THEN Ok(res)
       ELSE compress(m, feat, acc, res)

\* after_no_transform that removes the Content-Length of a response that
\* downstream encoded
after_no_transform_strips_length(m, feat, acc, res) ==
    LET res1 == Vary_apply(res)
        previous_encoding == ContentEncoding_from_headers(res1.content_encoding)
    IN IF ~previous_encoding.ok THEN Panic
       ELSE IF IsSome(previous_encoding.value)
               /\ Unwrap(previous_encoding.value) # "Identity"
       THEN Ok(remove_content_length(res1))
       ELSE IF IsSome(len(res1)) /\ Unwrap(len(res1)) < m.threshold
       THEN Ok(res1)
       ELSE compress(m, feat, acc, res1)

\* after_no_transform without the check of the previous encoding
after_no_transform_reencodes(m, feat, acc, res) ==
    LET res1 == Vary_apply(res)
        previous_encoding == ContentEncoding_from_headers(res1.content_encoding)
    IN IF ~previous_encoding.ok THEN Panic
       ELSE IF IsSome(len(res1)) /\ Unwrap(len(res1)) < m.threshold
       THEN Ok(res1)
       ELSE compress(m, feat, acc, res1)

\* handle, lines 233-251: Vary is set, then a response with a non-identity
\* Content-Encoding or a known length below the threshold is returned
after_no_transform(m, feat, acc, res) ==
    LET res1 == Vary_apply(res)
        previous_encoding == ContentEncoding_from_headers(res1.content_encoding)
    IN IF ~previous_encoding.ok THEN Panic
       ELSE IF IsSome(previous_encoding.value)
               /\ Unwrap(previous_encoding.value) # "Identity"
       THEN Ok(res1)
       ELSE IF IsSome(len(res1)) /\ Unwrap(len(res1)) < m.threshold
       THEN Ok(res1)
       ELSE compress(m, feat, acc, res1)

\* after_next without the is_head test
after_next_head_ignored(m, feat, head, acc, res) ==
    IF acc = None THEN Ok(res)
    ELSE LET cache_control == CacheControl_from_headers(res.cache_control)
         IN IF ~cache_control.ok THEN Err("CacheControl")
            ELSE IF IsSome(cache_control.value)
                    /\ Contains(Unwrap(cache_control.value), "no-transform")
            THEN Ok(res)
            ELSE after_no_transform(m, feat, Unwrap(acc), res)

\* after_next without the no-transform test
after_next_transforms(m, feat, head, acc, res) ==
    IF head \/ acc = None THEN Ok(res)
    ELSE LET cache_control == CacheControl_from_headers(res.cache_control)
         IN IF ~cache_control.ok THEN Err("CacheControl")
            ELSE after_no_transform(m, feat, Unwrap(acc), res)

\* handle, lines 214-231, after next.run(req).await returned res
after_next(m, feat, head, acc, res) ==
    IF head \/ acc = None THEN Ok(res)
    ELSE LET cache_control == CacheControl_from_headers(res.cache_control)
         IN IF ~cache_control.ok THEN Err("CacheControl")
            ELSE IF IsSome(cache_control.value)
                    /\ Contains(Unwrap(cache_control.value), "no-transform")
            THEN Ok(res)
            ELSE after_no_transform(m, feat, Unwrap(acc), res)

(***************************************************************************)
(* State                                                                   *)
(***************************************************************************)

VARIABLES
    features,    \* the codec features of the build
    mw,          \* the CompressMiddleware instance, None before construction
    pc,          \* "build", "idle", "awaiting" (at next.run(req).await), "done"
    req,         \* the request handle was called with
    is_head,     \* handle's local is_head
    accepts,     \* handle's local accepts: Option<AcceptEncoding>
    downstream,  \* the response next.run(req) returned
    next_runs,   \* the number of times this call ran next
    result,      \* what handle returned
    args         \* the constructor call under test, None in the other specifications

vars == <<features, mw, pc, req, is_head, accepts, downstream, next_runs, result, args>>

\* the feature sets of the builds
FeatureSets == SUBSET Codecs

NoCall ==
    /\ req = None
    /\ is_head = FALSE
    /\ accepts = None
    /\ downstream = None
    /\ next_runs = 0
    /\ result = None

Init ==
    /\ features \in FeatureSets
    /\ mw = None
    /\ pc = "build"
    /\ NoCall
    /\ args = None

config == <<features, mw>>
frame == <<config, args>>
call == <<req, is_head, accepts, downstream, next_runs, result>>

\* CompressMiddleware::new()
new ==
    /\ pc = "build"
    /\ mw' = Some(CompressMiddleware_new(features))
    /\ pc' = "idle"
    /\ UNCHANGED <<features, call, args>>

\* CompressMiddleware::with_threshold(threshold)
with_threshold ==
    /\ pc = "build"
    /\ \E threshold \in 0..MaxThreshold :
          mw' = Some(CompressMiddleware_with_threshold(features, threshold))
    /\ pc' = "idle"
    /\ UNCHANGED <<features, call, args>>

\* CompressMiddleware::with_levels(levels)
with_levels ==
    /\ pc = "build"
    /\ \E levels \in LevelInputs(features) :
          mw' = Some(CompressMiddleware_with_levels(features, levels))
    /\ pc' = "idle"
    /\ UNCHANGED <<features, call, args>>

\* CompressMiddleware::with_threshold_and_levels(threshold, levels)
with_threshold_and_levels ==
    /\ pc = "build"
    /\ \E threshold \in 0..MaxThreshold, levels \in LevelInputs(features) :
          mw' = Some(CompressMiddleware_with_threshold_and_levels(threshold, levels))
    /\ pc' = "idle"
    /\ UNCHANGED <<features, call, args>>

\* handle_request that runs next before it looks at the Accept-Encoding header
handle_request_runs_first ==
    /\ pc = "idle"
    /\ \E r \in Requests :
          LET parsed == AcceptEncoding_from_headers(r.accept_encoding)
          IN /\ req' = Some(r)
             /\ is_head' = (r.method = "Head")
             /\ next_runs' = next_runs + 1
             /\ IF parsed.ok
                THEN /\ accepts' = parsed.value
                     /\ result' = None
                     /\ pc' = "awaiting"
                ELSE /\ accepts' = None
                     /\ result' = Some(Err("AcceptEncoding"))
                     /\ pc' = "done"
    /\ UNCHANGED <<frame, downstream>>

\* handle, lines 205-212: capture is_head and accepts from the request, then
\* run next; a malformed Accept-Encoding returns the error before next runs
handle_request ==
    /\ pc = "idle"
    /\ \E r \in Requests :
          LET parsed == AcceptEncoding_from_headers(r.accept_encoding)
          IN /\ req' = Some(r)
             /\ is_head' = (r.method = "Head")
             /\ IF parsed.ok
                THEN /\ accepts' = parsed.value
                     /\ next_runs' = next_runs + 1
                     /\ result' = None
                     /\ pc' = "awaiting"
                ELSE /\ accepts' = None
                     /\ next_runs' = next_runs
                     /\ result' = Some(Err("AcceptEncoding"))
                     /\ pc' = "done"
    /\ UNCHANGED <<frame, downstream>>

\* handle, lines 212-271: next.run(req).await returns a response and the rest
\* of handle runs to its return
handle_response ==
    /\ pc = "awaiting"
    /\ \E res \in Responses :
          /\ downstream' = Some(res)
          /\ result' = Some(after_next(Unwrap(mw), features, is_head, accepts, res))
    /\ pc' = "done"
    /\ UNCHANGED <<frame, req, is_head, accepts, next_runs>>

\* the caller has the result; the middleware is ready for the next request
finish ==
    /\ pc = "done"
    /\ pc' = "idle"
    /\ req' = None
    /\ is_head' = FALSE
    /\ accepts' = None
    /\ downstream' = None
    /\ next_runs' = 0
    /\ result' = None
    /\ UNCHANGED frame

Next ==
    \/ new
    \/ with_threshold
    \/ with_levels
    \/ with_threshold_and_levels
    \/ handle_request
    \/ handle_response
    \/ finish

Spec == Init /\ [][Next]_vars

(***************************************************************************)
(* The selector alone: negotiate applied to every parsed Accept-Encoding   *)
(* of at most MaxEntries proposals, for every feature set                  *)
(***************************************************************************)

AcceptEncodings ==
    [entries : SeqUpTo(Proposals, MaxEntries), wildcard : BOOLEAN]

InitSelect ==
    /\ features \in FeatureSets
    /\ mw = None
    /\ pc = "select"
    /\ req = None
    /\ is_head = FALSE
    /\ accepts \in {Some(a) : a \in AcceptEncodings}
    /\ downstream = None
    /\ next_runs = 0
    /\ result = None
    /\ args = None

\* handle, lines 254-261: accepts.negotiate(&[..])
select ==
    /\ pc = "select"
    /\ result' = Some(negotiate(Unwrap(accepts), available(features)))
    /\ pc' = "selected"
    /\ UNCHANGED <<frame, req, is_head, accepts, downstream, next_runs>>

NextSelect == select

SpecSelect == InitSelect /\ [][NextSelect]_vars

(***************************************************************************)
(* Concurrent calls: NCalls calls of handle on one shared middleware, in   *)
(* any interleaving of their steps.  The call variables are indexed by the *)
(* call.                                                                   *)
(***************************************************************************)

Calls == 1..NCalls

\* the requests and the downstream responses of the concurrent calls
ConcurrentRequests ==
    [method : {"Get", "Head"},
     accept_encoding : {None, Some(<<<<"gzip", "">>>>), Some(<<<<"gzip", "q=x">>>>)}]

ConcurrentResponses ==
    {r \in Responses :
        /\ r.cache_control \in {None, Some(<<"public", "no-transform">>)}
        /\ r.content_encoding \in {<<>>, <<"gzip">>}
        /\ r.content_length = None
        /\ r.vary = {}
        /\ len(r) \in {Some(0), Some(THRESHOLD)}}

\* the middleware was constructed by new() or with_threshold(t) and is shared
InitConcurrent ==
    /\ features \in FeatureSets
    /\ mw \in {Some(CompressMiddleware_new(features))} \cup
              {Some(CompressMiddleware_with_threshold(features, t)) :
                  t \in 0..MaxThreshold}
    /\ pc = [i \in Calls |-> "idle"]
    /\ req = [i \in Calls |-> None]
    /\ is_head = [i \in Calls |-> FALSE]
    /\ accepts = [i \in Calls |-> None]
    /\ downstream = [i \in Calls |-> None]
    /\ next_runs = [i \in Calls |-> 0]
    /\ result = [i \in Calls |-> None]
    /\ args = None

\* handle, lines 205-212, in call i
concurrent_request(i) ==
    /\ pc[i] = "idle"
    /\ \E r \in ConcurrentRequests :
          LET parsed == AcceptEncoding_from_headers(r.accept_encoding)
          IN /\ req' = [req EXCEPT ![i] = Some(r)]
             /\ is_head' = [is_head EXCEPT ![i] = (r.method = "Head")]
             /\ IF parsed.ok
                THEN /\ accepts' = [accepts EXCEPT ![i] = parsed.value]
                     /\ next_runs' = [next_runs EXCEPT ![i] = @ + 1]
                     /\ result' = result
                     /\ pc' = [pc EXCEPT ![i] = "awaiting"]
                ELSE /\ accepts' = accepts
                     /\ next_runs' = next_runs
                     /\ result' = [result EXCEPT ![i] = Some(Err("AcceptEncoding"))]
                     /\ pc' = [pc EXCEPT ![i] = "done"]
    /\ UNCHANGED <<frame, downstream>>

\* concurrent_response that lowers the shared threshold
concurrent_response_retunes(i) ==
    /\ pc[i] = "awaiting"
    /\ \E res \in ConcurrentResponses :
          /\ downstream' = [downstream EXCEPT ![i] = Some(res)]
          /\ result' = [result EXCEPT ![i] =
                Some(after_next(Unwrap(mw), features, is_head[i], accepts[i], res))]
    /\ pc' = [pc EXCEPT ![i] = "done"]
    /\ mw' = Some([Unwrap(mw) EXCEPT !.threshold = 0])
    /\ UNCHANGED <<features, args, req, is_head, accepts, next_runs>>

\* handle, lines 212-271, in call i: self is borrowed immutably
concurrent_response(i) ==
    /\ pc[i] = "awaiting"
    /\ \E res \in ConcurrentResponses :
          /\ downstream' = [downstream EXCEPT ![i] = Some(res)]
          /\ result' = [result EXCEPT ![i] =
                Some(after_next(Unwrap(mw), features, is_head[i], accepts[i], res))]
    /\ pc' = [pc EXCEPT ![i] = "done"]
    /\ UNCHANGED <<frame, req, is_head, accepts, next_runs>>

\* the caller of call i has the result
concurrent_finish(i) ==
    /\ pc[i] = "done"
    /\ pc' = [pc EXCEPT ![i] = "idle"]
    /\ req' = [req EXCEPT ![i] = None]
    /\ is_head' = [is_head EXCEPT ![i] = FALSE]
    /\ accepts' = [accepts EXCEPT ![i] = None]
    /\ downstream' = [downstream EXCEPT ![i] = None]
    /\ next_runs' = [next_runs EXCEPT ![i] = 0]
    /\ result' = [result EXCEPT ![i] = None]
    /\ UNCHANGED frame

NextConcurrent ==
    \E i \in Calls :
        \/ concurrent_request(i)
        \/ concurrent_response(i)
        \/ concurrent_finish(i)

SpecConcurrent == InitConcurrent /\ [][NextConcurrent]_vars

(***************************************************************************)
(* The constructors alone: each function of CompressionLevels and          *)
(* CompressMiddleware applied to its arguments                             *)
(***************************************************************************)

\* the thresholds and the level configurations passed to the constructors
ThresholdArgs == (0..MaxThreshold) \cup {THRESHOLD}
LevelsArgs(feat) == [feat -> Level]

ConstructorCalls(feat) ==
    {[fn |-> "CompressionLevels::default"], [fn |-> "default"], [fn |-> "new"]}
    \cup {[fn |-> "all", level |-> l] : l \in Level}
    \cup {[fn |-> "with_threshold", threshold |-> t] : t \in ThresholdArgs}
    \cup {[fn |-> "with_levels", levels |-> l] : l \in LevelsArgs(feat)}
    \cup {[fn |-> "with_threshold_and_levels", threshold |-> t, levels |-> l] :
             t \in ThresholdArgs, l \in LevelsArgs(feat)}

InitConstruct ==
    /\ features \in FeatureSets
    /\ args \in {Some(c) : c \in ConstructorCalls(features)}
    /\ mw = None
    /\ pc = "construct"
    /\ NoCall

Called(fn) == pc = "construct" /\ Unwrap(args).fn = fn

\* CompressionLevels::default()
construct_levels_default ==
    /\ Called("CompressionLevels::default")
    /\ result' = Some(CompressionLevels_default(features))
    /\ pc' = "constructed"
    /\ UNCHANGED <<frame, req, is_head, accepts, downstream, next_runs>>

\* CompressionLevels::all(level)
construct_all ==
    /\ Called("all")
    /\ result' = Some(all(features, Unwrap(args).level))
    /\ pc' = "constructed"
    /\ UNCHANGED <<frame, req, is_head, accepts, downstream, next_runs>>

\* CompressMiddleware::default()
construct_default ==
    /\ Called("default")
    /\ mw' = Some(CompressMiddleware_default(features))
    /\ pc' = "constructed"
    /\ UNCHANGED <<features, args, call>>

\* CompressMiddleware::new()
construct_new ==
    /\ Called("new")
    /\ mw' = Some(CompressMiddleware_new(features))
    /\ pc' = "constructed"
    /\ UNCHANGED <<features, args, call>>

\* CompressMiddleware::with_threshold(threshold)
construct_with_threshold ==
    /\ Called("with_threshold")
    /\ mw' = Some(CompressMiddleware_with_threshold(features, Unwrap(args).threshold))
    /\ pc' = "constructed"
    /\ UNCHANGED <<features, args, call>>

\* CompressMiddleware::with_levels(levels)
construct_with_levels ==
    /\ Called("with_levels")
    /\ mw' = Some(CompressMiddleware_with_levels(features, Unwrap(args).levels))
    /\ pc' = "constructed"
    /\ UNCHANGED <<features, args, call>>

\* CompressMiddleware::with_threshold_and_levels(threshold, levels)
construct_with_threshold_and_levels ==
    /\ Called("with_threshold_and_levels")
    /\ mw' = Some(CompressMiddleware_with_threshold_and_levels(
                      Unwrap(args).threshold, Unwrap(args).levels))
    /\ pc' = "constructed"
    /\ UNCHANGED <<features, args, call>>

NextConstruct ==
    \/ construct_levels_default
    \/ construct_all
    \/ construct_default
    \/ construct_new
    \/ construct_with_threshold
    \/ construct_with_levels
    \/ construct_with_threshold_and_levels

SpecConstruct == InitConstruct /\ [][NextConstruct]_vars

(***************************************************************************)
(* Vocabulary of the properties                                            *)
(***************************************************************************)

\* handle returned Ok(response) for a response downstream produced
Returned ==
    /\ pc = "done"
    /\ IsSome(downstream)
    /\ IsSome(result)
    /\ Unwrap(result).kind = "Ok"

\* the request, the downstream response and the returned response
TheReq == Unwrap(req)
In == Unwrap(downstream)
Out == Unwrap(result).res

\* the returned body is an encoder: compression was applied
Compressed == Out.body.kind = "encoder"

HasAcceptEncoding == IsSome(TheReq.accept_encoding)

HasNoTransform ==
    /\ IsSome(In.cache_control)
    /\ Contains(Unwrap(In.cache_control), "no-transform")

\* the downstream response carries a Content-Encoding value other than identity
HasPreviousEncoding ==
    \E i \in 1..Len(In.content_encoding) : In.content_encoding[i] # "identity"

\* the downstream response is eligible up to the threshold check: a request
\* other than HEAD with Accept-Encoding, a Cache-Control that parses and has no
\* no-transform, no Content-Encoding other than identity
Eligible ==
    /\ pc = "done"
    /\ IsSome(downstream)
    /\ TheReq.method # "Head"
    /\ HasAcceptEncoding
    /\ In.cache_control \in {None, Some(<<"public">>)}
    /\ ~HasPreviousEncoding

\* the client accepts a codec of the build: it lists one, or it sent "*" and
\* the build has a codec
Acceptable ==
    \/ \E i \in 1..Len(Unwrap(accepts).entries) :
          FeatureOf(Unwrap(accepts).entries[i].encoding) \in features
    \/ Unwrap(accepts).wildcard /\ features # {}

\* the Content-Encoding value that names an encoder
CodingOf(encoder) ==
    CASE encoder = "BrotliEncoder" -> "br"
      [] encoder = "GzipEncoder" -> "gzip"
      [] OTHER -> "deflate"

(***************************************************************************)
(* Properties                                                              *)
(***************************************************************************)

\* C1: when the request is HEAD or has no Accept-Encoding header, the response
\* handle returns is the response downstream produced: same body, same
\* headers, no Vary added, no Content-Encoding applied.
C1_HeadOrNoAcceptUnmodified ==
    (Returned /\ (TheReq.method = "Head" \/ ~HasAcceptEncoding)) => Out = In

\* a HEAD request that accepts gzip, with a body at the threshold that would
\* otherwise be compressed, came back as downstream produced it
C1_Witness ==
    /\ Returned
    /\ TheReq.method = "Head"
    /\ TheReq.accept_encoding = Some(<<<<"gzip", "">>>>)
    /\ "gzip" \in features
    /\ In.cache_control = None
    /\ In.content_encoding = <<>>
    /\ len(In) = Some(Unwrap(mw).threshold)
    /\ Out = In

\* C2: a response whose Cache-Control has no-transform is returned unmodified:
\* body not replaced, no Content-Encoding set, Content-Length kept, no Vary
\* added, even with Accept-Encoding present and the body at the threshold.
C2_NoTransformUnmodified ==
    (Returned /\ HasNoTransform) => Out = In

\* a GET that accepts gzip got a no-transform response with a body at the
\* threshold back as downstream produced it
C2_Witness ==
    /\ Returned
    /\ TheReq.method = "Get"
    /\ TheReq.accept_encoding = Some(<<<<"gzip", "">>>>)
    /\ "gzip" \in features
    /\ HasNoTransform
    /\ In.content_encoding = <<>>
    /\ In.content_length = Some("set")
    /\ len(In) = Some(Unwrap(mw).threshold)
    /\ Out = In

\* C3: for an eligible response with known length L and threshold T: if L < T
\* the body is not wrapped and no Content-Encoding is set; if L >= T (L = T
\* included) and the client accepts a codec of the build, compression is
\* applied.
C3_Threshold ==
    (Eligible /\ IsSome(len(In))) =>
        LET L == Unwrap(len(In))
            T == Unwrap(mw).threshold
        IN /\ L < T =>
                /\ Returned
                /\ Out.body = In.body
                /\ Out.content_encoding = In.content_encoding
           /\ (L >= T /\ Acceptable) => (Returned /\ Compressed)

\* a body of exactly the threshold's length, threshold above zero, was compressed
C3_Witness ==
    /\ Eligible
    /\ Unwrap(mw).threshold > 0
    /\ len(In) = Some(Unwrap(mw).threshold)
    /\ Returned
    /\ Compressed

\* C4 (as claimed): when the client lists codings but no codec of the build
\* (only identity, or only codecs that are not built in), handle
\* returns the response with its original body and Content-Length, without a
\* Content-Encoding added and with Vary: Accept-Encoding; it does not fail.
C4_IdentityFallback ==
    (/\ Eligible
     /\ ~(IsSome(len(In)) /\ Unwrap(len(In)) < Unwrap(mw).threshold)
     /\ features # {}
     /\ Unwrap(accepts).entries # <<>>
     /\ ~Acceptable)
    => /\ Returned
       /\ Out.body = In.body
       /\ Out.content_length = In.content_length
       /\ Out.content_encoding = In.content_encoding
       /\ "accept-encoding" \in Out.vary

\* C5: a response that already carries a Content-Encoding other than identity
\* is returned with the same Content-Encoding values and its body not wrapped.
C5_PreviousEncodingKept ==
    (Returned /\ HasPreviousEncoding) =>
        /\ Out.content_encoding = In.content_encoding
        /\ Out.body = In.body

\* a gzip-encoded response with a body at the threshold, on a GET that accepts
\* br with br built in, kept its gzip encoding and its body
C5_Witness ==
    /\ Returned
    /\ TheReq.method = "Get"
    /\ TheReq.accept_encoding = Some(<<<<"br", "">>>>)
    /\ "brotli" \in features
    /\ ~HasNoTransform
    /\ In.content_encoding = <<"gzip">>
    /\ len(In) = Some(Unwrap(mw).threshold)
    /\ Out.content_encoding = <<"gzip">>
    /\ Out.body = In.body

\* C6: when compression is applied, the response has no Content-Length header
\* and exactly one Content-Encoding value, which names the algorithm of the
\* encoder installed, and the new body has unknown length.
C6_CompressedHeaders ==
    (Returned /\ Compressed) =>
        /\ Out.content_length = None
        /\ Len(Out.content_encoding) = 1
        /\ Out.content_encoding[1] = CodingOf(Out.body.encoder)
        /\ len(Out) = None

\* a response with Content-Length set, Content-Encoding identity and a known
\* length was compressed
C6_Witness ==
    /\ Returned
    /\ Compressed
    /\ In.content_length = Some("set")
    /\ In.content_encoding = <<"identity">>
    /\ IsSome(len(In))
    /\ Out.content_length = None

\* C7 (as claimed): a returned response on which compression was skipped for
\* any reason other than an absent Accept-Encoding header carries
\* Vary: Accept-Encoding.
C7_VaryWheneverSkipped ==
    (Returned /\ ~Compressed /\ HasAcceptEncoding) =>
        "accept-encoding" \in Out.vary

\* C7 (amended): a returned response on which compression was skipped, for a
\* request other than HEAD with Accept-Encoding present and a response
\* without no-transform, carries Vary: Accept-Encoding; a response skipped for
\* HEAD or no-transform is returned with the Vary downstream gave it.
C7_VaryAfterNoTransformCheck ==
    (Returned /\ ~Compressed /\ HasAcceptEncoding) =>
        IF TheReq.method = "Head" \/ HasNoTransform
        THEN Out.vary = In.vary
        ELSE "accept-encoding" \in Out.vary

\* a response below the threshold, which did not vary on Accept-Encoding, was
\* returned uncompressed with Vary: Accept-Encoding
C7_Witness ==
    /\ Returned
    /\ ~Compressed
    /\ TheReq.method = "Get"
    /\ HasAcceptEncoding
    /\ ~HasNoTransform
    /\ ~HasPreviousEncoding
    /\ "accept-encoding" \notin In.vary
    /\ "accept-encoding" \in Out.vary

\* C8 (as claimed): every returned response has at most one Content-Encoding
\* value, and if it is not identity a Content-Length present on the downstream
\* response has been removed, on every path.
C8_OneEncodingNoLength ==
    Returned =>
        /\ Len(Out.content_encoding) <= 1
        /\ (/\ Out.content_encoding # <<>>
            /\ Out.content_encoding # <<"identity">>
            /\ IsSome(In.content_length)) => Out.content_length = None

\* C8 (amended): a response on which handle applied compression has exactly
\* one Content-Encoding value and no Content-Length; every other returned
\* response has the Content-Encoding values and the Content-Length that
\* downstream gave it.
C8_EncodingAndLengthByPath ==
    Returned =>
        IF Compressed
        THEN /\ Len(Out.content_encoding) = 1
             /\ Out.content_encoding[1] # "identity"
             /\ Out.content_length = None
        ELSE /\ Out.content_encoding = In.content_encoding
             /\ Out.content_length = In.content_length

\* a response that downstream encoded with gzip and gave a Content-Length was
\* returned with both
C8_Witness ==
    /\ Returned
    /\ TheReq.method = "Get"
    /\ HasAcceptEncoding
    /\ ~HasNoTransform
    /\ In.content_encoding = <<"gzip">>
    /\ In.content_length = Some("set")
    /\ Out.content_encoding = <<"gzip">>
    /\ Out.content_length = Some("set")

C10_NoCodecsPassThrough ==
    (pc = "done" /\ features = {} /\ IsSome(downstream)) =>
        /\ ~(Unwrap(result).kind = "Err" /\ Unwrap(result).error = "NotAcceptable")
        /\ Unwrap(result).kind = "Ok" => Out.body = In.body

\* Vary was set on the returned response: a request other than HEAD with
\* Accept-Encoding and a response without no-transform
VarySet ==
    /\ Returned
    /\ TheReq.method # "Head"
    /\ HasAcceptEncoding
    /\ ~HasNoTransform

\* C11 (as claimed): when handle adds Accept-Encoding to Vary it merges: every
\* value the downstream response's Vary listed is still listed in the returned
\* response's Vary, together with Accept-Encoding.
C11_VaryMerged ==
    VarySet =>
        /\ In.vary \subseteq Out.vary
        /\ "accept-encoding" \in Out.vary

\* the Accept-Encoding header of the request does not parse
AcceptEncodingMalformed ==
    /\ IsSome(req)
    /\ ~AcceptEncoding_from_headers(TheReq.accept_encoding).ok

\* C12 (as claimed): in every call of handle, also one that ends in an error,
\* downstream is invoked exactly once.
C12_NextRunsExactlyOnce ==
    pc = "done" => next_runs = 1

\* C12 (amended): in a call of handle downstream is invoked at most once, and
\* only after the method and the parsed Accept-Encoding were captured from
\* the request; a call that returned has invoked it exactly once, error paths
\* included, except when the Accept-Encoding header of the request does not
\* parse: then handle returns the error without invoking downstream.
C12_NextRunsOnceAfterCapture ==
    /\ next_runs <= 1
    /\ next_runs = 1 =>
          /\ IsSome(req)
          /\ is_head = (TheReq.method = "Head")
          /\ AcceptEncoding_from_headers(TheReq.accept_encoding).ok
          /\ accepts = AcceptEncoding_from_headers(TheReq.accept_encoding).value
    /\ pc = "awaiting" => next_runs = 1
    /\ pc = "done" => next_runs = (IF AcceptEncodingMalformed THEN 0 ELSE 1)
    /\ IsSome(downstream) => next_runs = 1

\* a call that ended in an error of the negotiation had invoked downstream once
C12_Witness ==
    /\ pc = "done"
    /\ IsSome(downstream)
    /\ Unwrap(result).kind = "Err"
    /\ next_runs = 1
    /\ TheReq.method = "Get"
    /\ IsSome(accepts)

\* the call got as far as the response's headers: downstream returned, the
\* request is not HEAD and has an Accept-Encoding that parsed
ResponseInspected ==
    /\ pc = "done"
    /\ IsSome(downstream)
    /\ TheReq.method # "Head"
    /\ IsSome(accepts)

\* C13 (as claimed): when a header needed for the decision is malformed (the
\* request's Accept-Encoding, the response's Cache-Control or
\* Content-Encoding), handle returns an error and no response.
C13_MalformedIsError ==
    /\ (pc = "done" /\ AcceptEncodingMalformed) => Unwrap(result).kind = "Err"
    /\ (ResponseInspected /\ In.cache_control = Some(<<"max-age=x">>)) =>
          Unwrap(result).kind = "Err"
    /\ (/\ ResponseInspected
        /\ In.cache_control \in {None, Some(<<"public">>)}
        /\ In.content_encoding = <<"compress">>) =>
          Unwrap(result).kind = "Err"

\* C14: handle never modifies the middleware's threshold or levels (nor the
\* build's features), and with concurrent calls on one shared middleware, in
\* any interleaving, two calls with the same request and the same downstream
\* response return the same result: the outcome of a call depends only on its
\* request, its downstream response and the construction-time configuration.
C14_SharedConfigReadOnly ==
    /\ [][mw' = mw /\ features' = features]_vars
    /\ [](\A i, j \in Calls :
            (/\ pc[i] = "done"
             /\ pc[j] = "done"
             /\ req[i] = req[j]
             /\ downstream[i] = downstream[j]) => result[i] = result[j])

\* call 2 ran to its return and compressed its response while call 1 was
\* suspended at next.run; the threshold is the default
C14_Witness ==
    /\ pc[1] = "awaiting"
    /\ pc[2] = "done"
    /\ IsSome(downstream[2])
    /\ Unwrap(result[2]).kind = "Ok"
    /\ Unwrap(result[2]).res.body.kind = "encoder"
    /\ Unwrap(mw).threshold = THRESHOLD

\* the constructor call fn has returned
Constructed(fn) == pc = "constructed" /\ Unwrap(args).fn = fn

\* every enabled algorithm has the library-default level
DefaultLevels(levels) ==
    /\ DOMAIN levels = features
    /\ \A c \in features : levels[c] = "Default"

\* C15: CompressionLevels::all(level) returns a configuration in which every
\* available algorithm has exactly the given level, for every level.
C15_AllSetsEveryLevel ==
    Constructed("all") =>
        /\ DOMAIN Unwrap(result) = features
        /\ \A c \in features : Unwrap(result)[c] = Unwrap(args).level

\* as in tests/levels.rs: with the three codecs, all(Fastest) has brotli,
\* deflate and gzip at Fastest
C15_Witness ==
    /\ Constructed("all")
    /\ features = Codecs
    /\ Unwrap(args).level = "Fastest"
    /\ Unwrap(result)["brotli"] = "Fastest"
    /\ Unwrap(result)["deflate"] = "Fastest"
    /\ Unwrap(result)["gzip"] = "Fastest"

\* C16: new() and default() give threshold 1024 and default levels;
\* with_threshold(t) gives threshold t and default levels; with_levels(l)
\* gives threshold 1024 and levels l; with_threshold_and_levels(t, l) gives
\* exactly t and l.
C16_Constructors ==
    /\ (Constructed("new") \/ Constructed("default")) =>
          /\ Unwrap(mw).threshold = 1024
          /\ DefaultLevels(Unwrap(mw).levels)
    /\ Constructed("with_threshold") =>
          /\ Unwrap(mw).threshold = Unwrap(args).threshold
          /\ DefaultLevels(Unwrap(mw).levels)
    /\ Constructed("with_levels") =>
          /\ Unwrap(mw).threshold = 1024
          /\ Unwrap(mw).levels = Unwrap(args).levels
    /\ Constructed("with_threshold_and_levels") =>
          /\ Unwrap(mw).threshold = Unwrap(args).threshold
          /\ Unwrap(mw).levels = Unwrap(args).levels
    /\ Constructed("CompressionLevels::default") => DefaultLevels(Unwrap(result))

\* with_levels of the documentation example gave threshold 1024 and brotli at
\* Precise(4), gzip at Fastest, deflate at Default
C16_Witness ==
    /\ Constructed("with_levels")
    /\ features = Codecs
    /\ Unwrap(args).levels = DocLevels(Codecs)
    /\ Unwrap(mw).threshold = 1024
    /\ Unwrap(mw).levels["brotli"] = "Precise4"
    /\ Unwrap(mw).levels["gzip"] = "Fastest"
    /\ Unwrap(mw).levels["deflate"] = "Default"

\* the encoder of an algorithm
EncoderOf(encoding) ==
    CASE encoding = "Brotli" -> "BrotliEncoder"
      [] encoding = "Gzip" -> "GzipEncoder"
      [] OTHER -> "DeflateEncoder"

\* C17: when compression is applied, the encoder around the body is the one
\* of the negotiated algorithm, configured with that algorithm's level of
\* CompressionLevels, and Content-Encoding names that algorithm.
C17_EncoderAndLevelOfNegotiated ==
    (Returned /\ Compressed) =>
        LET encoding == negotiate(Unwrap(accepts), available(features))
        IN /\ encoding.ok
           /\ Out.body.encoder = EncoderOf(encoding.value)
           /\ Out.body.level = Unwrap(mw).levels[FeatureOf(encoding.value)]
           /\ Out.content_encoding = <<CodingOf(EncoderOf(encoding.value))>>

\* with the levels of the documentation example and the three codecs, a
\* client that accepts gzip got the gzip encoder at Fastest
C17_Witness ==
    /\ Returned
    /\ Compressed
    /\ features = Codecs
    /\ Unwrap(mw).levels = DocLevels(Codecs)
    /\ TheReq.accept_encoding = Some(<<<<"gzip", "">>>>)
    /\ Out.body.encoder = "GzipEncoder"
    /\ Out.body.level = "Fastest"
    /\ Out.content_encoding = <<"gzip">>

\* C18: for a request other than HEAD with Accept-Encoding present and a
\* response without no-transform, the returned response's Vary lists
\* Accept-Encoding, also when compression is skipped for an existing
\* Content-Encoding or a body below the threshold.
C18_VaryOnEveryLaterPath ==
    VarySet => "accept-encoding" \in Out.vary

\* a response that downstream had encoded with gzip, and that varied on
\* Origin only, was returned uncompressed with Accept-Encoding in Vary
C18_Witness ==
    /\ VarySet
    /\ In.content_encoding = <<"gzip">>
    /\ In.vary = {"origin"}
    /\ ~Compressed
    /\ "accept-encoding" \in Out.vary

\* C19: when the body length of an eligible response is unknown, the
\* threshold does not prevent compression: compression is applied whenever
\* the client accepts a codec of the build, whatever the threshold is.
C19_UnknownLengthCompresses ==
    (Eligible /\ len(In) = None /\ Acceptable) => (Returned /\ Compressed)

\* a body of unknown length was compressed under the default threshold
C19_Witness ==
    /\ Eligible
    /\ len(In) = None
    /\ Unwrap(mw).threshold = THRESHOLD
    /\ Returned
    /\ Compressed
    /\ Out.body.inner = In.body

\* a short-circuit check returns the response: HEAD, no Accept-Encoding,
\* no-transform, an existing Content-Encoding, a known length below threshold
ShortCircuit ==
    \/ TheReq.method = "Head"
    \/ ~HasAcceptEncoding
    \/ HasNoTransform
    \/ HasPreviousEncoding
    \/ (IsSome(len(In)) /\ Unwrap(len(In)) < Unwrap(mw).threshold)

\* C20: the body of a response returned as Ok is the downstream body or one
\* encoder around the downstream body, never the empty body take_body left
\* and never an encoder around an encoder; a response returned by a
\* short-circuit check has the downstream body.
C20_BodyOriginalOrWrappedOnce ==
    Returned =>
        /\ \/ Out.body = In.body
           \/ (Out.body.kind = "encoder" /\ Out.body.inner = In.body)
        /\ Out.body.kind # "empty"
        /\ ShortCircuit => Out.body = In.body

\* a body of known length above zero came back inside one encoder
C20_Witness ==
    /\ Returned
    /\ IsSome(len(In))
    /\ Unwrap(len(In)) > 0
    /\ Out.body.kind = "encoder"
    /\ Out.body.inner = In.body
    /\ Out.body.inner.kind = "source"

====
